---------------------------- MODULE Spec2Model ----------------------------
(***************************************************************************)
(* A model of gensim's LdaModel (src/gensim/models/ldamodel.py): the       *)
(* sufficient-statistics accumulator LdaState (reset / merge / blend), the *)
(* M-step, the Dirichlet-prior Newton updates and the training loop of     *)
(* LdaModel.update (passes, bound-iterations, chunks, E-step / M-step      *)
(* scheduling).                                                            *)
(*                                                                         *)
(* Numbers.  numpy floats are modelled as exact rationals <<n, d>> in      *)
(* lowest terms (d > 0); floating-point rounding is not modelled.  The     *)
(* transcendental functions (psi, exp, gammaln) cannot be computed here:   *)
(*   - an entry of exp(dirichlet_expectation(x)) is represented by the     *)
(*     pair of arguments psi is applied to, <<x[k][w], sum of row k>>;     *)
(*   - the sufficient statistics an E-step collects are n_dw * phi_dwk,    *)
(*     with the responsibilities phi_d.k (which the code derives from a    *)
(*     random gamma and expElogbeta) chosen from RespChoices;              *)
(*   - the Newton directions dalpha / deta and the per-word bound are      *)
(*     chosen from small sets of values.                                   *)
(***************************************************************************)
EXTENDS Integers, Sequences, FiniteSets, TLC

\* ------------------------------------------------------------------ bounds
NumTopics == 2          \* K, the number of topics of the modelled LdaModel
NumTerms == 2           \* W, the vocabulary size
MaxDocs == 2            \* longest corpus handed to update
MaxPasses == 2          \* largest `passes`
MaxBoundIterations == 2 \* largest `max_bound_iterations`

Topics == 1..NumTopics
Terms == 1..NumTerms

\* an optional argument: None, or Some(v) for the value v
None == <<>>
Some(v) == <<v>>
\* `x if arg is None else arg`
Default(arg, x) == IF arg = None THEN x ELSE arg[1]

\* --------------------------------------------------------------- rationals
Abs(x) == IF x < 0 THEN -x ELSE x

RECURSIVE GCD(_, _)
GCD(a, b) == IF b = 0 THEN a ELSE GCD(b, a % b)

\* the rational n/d in lowest terms with a positive denominator
Q(n, d) ==
    LET s == IF d < 0 THEN -1 ELSE 1
        g == GCD(Abs(n), Abs(d))
    IN  <<(s * n) \div g, (s * d) \div g>>

R(n) == <<n, 1>>
\* sums and products reduce by common factors before they multiply
RAdd(a, b) ==
    LET g == GCD(a[2], b[2])
    IN  Q(a[1] * (b[2] \div g) + b[1] * (a[2] \div g), (a[2] \div g) * b[2])
RNeg(a) == <<-a[1], a[2]>>
RSub(a, b) == RAdd(a, RNeg(b))
RMul(a, b) ==
    LET g1 == GCD(Abs(a[1]), b[2])
        g2 == GCD(Abs(b[1]), a[2])
    IN  Q((a[1] \div g1) * (b[1] \div g2), (a[2] \div g2) * (b[2] \div g1))
RDiv(a, b) == Q(a[1] * b[2], a[2] * b[1])
RLt(a, b) == a[1] * b[2] < b[1] * a[2]
RPos(a) == a[1] > 0

\* ---------------------------------------------------------------- matrices
\* a num_topics x num_terms array
Zeros == [k \in Topics |-> [w \in Terms |-> R(0)]]
MatAdd(A, B) == [k \in Topics |-> [w \in Terms |-> RAdd(A[k][w], B[k][w])]]
MatScale(c, A) == [k \in Topics |-> [w \in Terms |-> RMul(c, A[k][w])]]

RECURSIVE SumOver(_, _)
\* the sum of f[x] over the finite set S
SumOver(f, S) ==
    IF S = {} THEN R(0)
    ELSE LET x == CHOOSE y \in S : TRUE
         IN  RAdd(f[x], SumOver(f, S \ {x}))

\* ------------------------------------------------------ Dirichlet utilities
\* dirichlet_expectation of a 2-d array: psi(x) - psi(sum of the row), each
\* entry kept as the pair of psi's arguments
dirichlet_expectation(X) ==
    [k \in Topics |-> [w \in Terms |-> <<X[k][w], SumOver(X[k], Terms)>>]]

\* numpy.exp, elementwise, of an array of such terms
Exp(X) == [k \in Topics |-> [w \in Terms |-> [exp |-> X[k][w]]]]

\* ---------------------------------------------------------------- LdaState
\* An LdaState is [sstats, numdocs].  Its eta is the array the model's
\* self.eta also names (LdaState.__init__ keeps the reference and update_eta
\* changes the array in place), so eta is one variable of the model.
LdaState == [sstats |-> Zeros, numdocs |-> 0]

reset(self) == [sstats |-> Zeros, numdocs |-> 0]

merge_nocount(self, other) ==
    [sstats |-> MatAdd(self.sstats, other.sstats), numdocs |-> self.numdocs]

\* merge with `=` written for `+=` on the statistics
merge_overwrites(self, other) ==
    [sstats |-> other.sstats, numdocs |-> self.numdocs + other.numdocs]

merge(self, other) ==
    [sstats |-> MatAdd(self.sstats, other.sstats),
     numdocs |-> self.numdocs + other.numdocs]

\* blend without the stretching of the incoming counts to targetsize
blend_unstretched(self, rhot, other, targetsize_arg) ==
    LET targetsize == Default(targetsize_arg, self.numdocs)
        scale1 == IF self.numdocs = 0 \/ targetsize = self.numdocs THEN R(1)
                  ELSE Q(targetsize, self.numdocs)
        s1 == MatScale(RMul(RSub(R(1), rhot), scale1), self.sstats)
    IN  [sstats |-> MatAdd(s1, MatScale(rhot, other.sstats)),
         numdocs |-> targetsize]

blend(self, rhot, other, targetsize_arg) ==
    LET targetsize == Default(targetsize_arg, self.numdocs)
        scale1 == IF self.numdocs = 0 \/ targetsize = self.numdocs THEN R(1)
                  ELSE Q(targetsize, self.numdocs)
        s1 == MatScale(RMul(RSub(R(1), rhot), scale1), self.sstats)
        scale2 == IF other.numdocs = 0 \/ targetsize = other.numdocs THEN R(1)
                  ELSE Q(targetsize, other.numdocs)
    IN  [sstats |-> MatAdd(s1, MatScale(RMul(rhot, scale2), other.sstats)),
         numdocs |-> targetsize]

\* eta is a num_topics x 1 column (or a scalar), broadcast over the terms
get_lambda(eta_, sstats_) ==
    [k \in Topics |-> [w \in Terms |-> RAdd(eta_[k], sstats_[k][w])]]

get_Elogbeta(eta_, sstats_) == dirichlet_expectation(get_lambda(eta_, sstats_))

\* the value sync_state stores in self.expElogbeta
sync_state(eta_, sstats_) == Exp(get_Elogbeta(eta_, sstats_))

\* ------------------------------------------------------------- Newton steps
\* the test of the step with `>= 0` written for `> 0`
StepPositive_nonnegative(prior, rho_, d) ==
    \A k \in Topics : ~RLt(RAdd(RMul(rho_, d[k]), prior[k]), R(0))

\* all(rho * d + prior > 0)
StepPositive(prior, rho_, d) ==
    \A k \in Topics : RPos(RAdd(RMul(rho_, d[k]), prior[k]))

\* update_alpha, given the Newton direction dalpha it computed from gammat
update_alpha(alpha_, rho_, dalpha) ==
    IF StepPositive(alpha_, rho_, dalpha)
    THEN [k \in Topics |-> RAdd(alpha_[k], RMul(rho_, dalpha[k]))]
    ELSE alpha_

\* update_eta, given the Newton direction deta it computed from lambdat
update_eta(eta_, rho_, deta) ==
    IF StepPositive(eta_, rho_, deta)
    THEN [k \in Topics |-> RAdd(eta_[k], RMul(rho_, deta[k]))]
    ELSE eta_

\* the directions a Newton step may propose (all topics up, all topics down)
NewtonDirections == {[k \in Topics |-> R(1)], [k \in Topics |-> R(-1)]}

\* ------------------------------------------------------------------ corpus
\* A document is a sequence of <<term id, count>> pairs.  The i-th document
\* of every corpus holds one occurrence of one term.
DocAt(i) == << <<((i - 1) % NumTerms) + 1, 1>> >>

\* A corpus is [haslen, len, docs, oneshot]: whether it answers len(), what
\* len() reports, how many documents a traversal of it yields, and whether
\* it is a generator, which yields its documents once only.
ListCorpus(n) == [haslen |-> TRUE, len |-> n, docs |-> n, oneshot |-> FALSE]
Generator(n) == [haslen |-> FALSE, len |-> 0, docs |-> n, oneshot |-> TRUE]
Stream(n) == [haslen |-> FALSE, len |-> 0, docs |-> n, oneshot |-> FALSE]
Resized(n, m) == [haslen |-> TRUE, len |-> n, docs |-> m, oneshot |-> FALSE]

\* the documents one traversal of corpus c yields, given whether a one-shot
\* corpus has been drained already
Yields(c, drained) == IF c.oneshot /\ drained THEN 0 ELSE c.docs

Min(a, b) == IF a < b THEN a ELSE b

\* Python's a % b for b # 0: the result has the sign of b
PyMod(a, b) == IF b > 0 THEN a % b ELSE -((-a) % (-b))

\* --------------------------------------------------------------- inference
\* the responsibilities phi_d.k an E-step may arrive at: every topic alike,
\* or all mass on the first topic
RespChoices ==
    {[k \in Topics |-> Q(1, NumTopics)],
     [k \in Topics |-> IF k = 1 THEN R(1) ELSE R(0)]}

\* the courses mean(|gammad - lastgamma|) may take over the iterations of
\* the fixed-point loop (the last value stays)
MeanChangeSeqs ==
    {<<R(1), R(1)>>, <<Q(1, 100), Q(1, 100)>>, <<R(1), R(0)>>}

MeanChange(mc, i) == IF i <= Len(mc) THEN mc[i] ELSE mc[Len(mc)]

RECURSIVE FixedPoint(_, _, _, _)
\* the number of iterations the loop `for _ in xrange(iterations)` makes
\* from iteration i on, breaking when meanchange < gamma_threshold
FixedPoint(i, iterations, gamma_threshold, mc) ==
    IF i > iterations THEN iterations
    ELSE IF RLt(MeanChange(mc, i), gamma_threshold) THEN i
    ELSE FixedPoint(i + 1, iterations, gamma_threshold, mc)

RECURSIVE DocSstats(_, _, _)
\* sstats[:, ids] += outer(expElogthetad, cts / phinorm), times expElogbeta:
\* document doc's n_dw * phi_dwk, added to S
DocSstats(S, doc, resp) ==
    IF doc = <<>> THEN S
    ELSE LET id == Head(doc)[1]
             cnt == Head(doc)[2]
             S1 == [k \in Topics |->
                      [S[k] EXCEPT ![id] = RAdd(@, RMul(R(cnt), resp[k]))]]
         IN  DocSstats(S1, Tail(doc), resp)

RECURSIVE ChunkSstats(_, _, _)
ChunkSstats(S, chunk_, resp) ==
    IF chunk_ = <<>> THEN S
    ELSE ChunkSstats(DocSstats(S, DocAt(Head(chunk_)), resp), Tail(chunk_),
                     resp)

\* inference(chunk, collect_sstats=True): [gamma rows, sstats, iterations
\* the fixed-point loop ran], reading self.iterations / self.gamma_threshold
inference(chunk_, self_iterations, self_gamma_threshold, resp, mc) ==
    [rows |-> Len(chunk_),
     sstats |-> ChunkSstats(Zeros, chunk_, resp),
     iters |-> IF self_iterations <= 0 THEN 0
               ELSE FixedPoint(1, self_iterations, self_gamma_threshold, mc)]

\* do_estep keeping the last chunk's statistics in place of the sum
do_estep_replaces(st, inf) ==
    [sstats |-> inf.sstats, numdocs |-> inf.rows]

\* do_estep adding the chunk's statistics without counting its documents
do_estep_nocount(st, inf) ==
    [sstats |-> MatAdd(st.sstats, inf.sstats), numdocs |-> st.numdocs]

\* do_estep: the accumulator after the chunk's statistics are added
do_estep(st, inf) ==
    [sstats |-> MatAdd(st.sstats, inf.sstats),
     numdocs |-> st.numdocs + inf.rows]

\* ------------------------------------------------------------------- state
VARIABLES
    lda,            \* the options the constructor stored in self
    state,          \* self.state: [sstats, numdocs]
    eta,            \* self.eta (= self.state.eta)
    alpha,          \* self.alpha
    expElogbeta,    \* self.expElogbeta
    num_updates,    \* self.num_updates
    pc,             \* where the call of update stands
    args,           \* update's options once the defaults are filled in
    corpus,         \* update's corpus
    drained,        \* whether the corpus, if one-shot, has been consumed
    lencorpus,
    pass_,
    bound_iteration,
    num_updates_at_pass_start,
    last_perwordbound,
    perwordbound,
    perwordbound_updated,
    other,          \* the accumulator of the E-steps
    dirty,
    reallen,
    it,             \* the chunk iterator: [next, stop, count]
    chunk_no,
    chunk,          \* the current chunk: the indices of its documents
    error,          \* the exception update raised, or "none"
    event,          \* the step taken last
    entry,          \* the model as it was when update was called
    inferred,       \* what the E-step just taken did: [iters, mc]
    resp,           \* the responsibilities phi_d.k the E-steps arrive at
    nodes,          \* the LdaStates of the cluster's nodes, being merged
    absorbed,       \* for each node, the nodes merged into it so far
    call,           \* a call made on its own: its arguments and its result
    history,        \* the E-steps and M-steps of the pass under way, in
                    \* order, one sequence for each of its bound-iterations
    pending         \* the chunks E-stepped since `other` was last reset

modelVars == <<lda, state, eta, alpha, expElogbeta, num_updates>>
callVars == <<args, corpus, drained, lencorpus>>
loopVars == <<pass_, bound_iteration, num_updates_at_pass_start,
              last_perwordbound>>
iterVars == <<perwordbound, perwordbound_updated, other, dirty, reallen, it,
              chunk_no, chunk>>
clusterVars == <<nodes, absorbed, call>>
historyVars == <<history, pending>>
vars == <<modelVars, callVars, loopVars, iterVars, pc, error, event, entry,
          inferred, resp, clusterVars, historyVars>>

\* what a claim calls the state of the model
Snapshot ==
    [sstats |-> state.sstats, numdocs |-> state.numdocs, alpha |-> alpha,
     eta |-> eta, expElogbeta |-> expElogbeta, num_updates |-> num_updates]

\* ------------------------------------------------------------- construction
\* LdaModel(id2word=..., num_topics=NumTopics, decay=1.0, iterations=2,
\* alpha=..., eta=...): alpha='auto' / eta='auto' turn the optimizers on;
\* every other option has the constructor's default
Constructed(optimize_alpha, optimize_eta) ==
    [chunksize |-> 2000, passes |-> 1, update_every |-> 1, eval_every |-> 10,
     max_bound_iterations |-> 1, bound_improvement_threshold |-> Q(1, 1000),
     decay |-> R(1), offset |-> R(1),
     iterations |-> 2, gamma_threshold |-> Q(1, 1000),
     optimize_alpha |-> optimize_alpha, optimize_eta |-> optimize_eta,
     numworkers |-> 1]

\* numpy.random.gamma(100., 1. / 100., shape): every entry near 1
InitSstats == [k \in Topics |-> [w \in Terms |-> R(1)]]

NoArgs ==
    [chunksize |-> None, decay |-> None, offset |-> None, passes |-> None,
     update_every |-> None, eval_every |-> None, iterations |-> None,
     gamma_threshold |-> None, max_bound_iterations |-> None,
     bound_improvement_threshold |-> None]

\* lines 621-639 and 650-651: the options update works with, the
\* constructor's unless the call overrides them
Effective(a, self, lencorpus_) ==
    [chunksize |-> Default(a.chunksize, Min(lencorpus_, self.chunksize)),
     decay |-> Default(a.decay, self.decay),
     offset |-> Default(a.offset, self.offset),
     passes |-> Default(a.passes, self.passes),
     update_every |-> Default(a.update_every, self.update_every),
     eval_every |-> Default(a.eval_every, self.eval_every),
     iterations |-> Default(a.iterations, self.iterations),
     gamma_threshold |-> Default(a.gamma_threshold, self.gamma_threshold),
     max_bound_iterations |->
         Default(a.max_bound_iterations, self.max_bound_iterations),
     bound_improvement_threshold |->
         Default(a.bound_improvement_threshold,
                 self.bound_improvement_threshold)]

\* last_perwordbound = 1e99
Inf99 == <<1, 0>>

\* no E-step was just taken
NotInferred == [iters |-> 0, mc |-> <<>>]

\* no call was made on its own
NoCall == [op |-> "none"]

InitModel(self, r) ==
    /\ lda = self
    /\ resp = r
    /\ state = [sstats |-> InitSstats, numdocs |-> 0]
    /\ eta = [k \in Topics |-> Q(1, NumTopics)]
    /\ alpha = [k \in Topics |-> Q(1, NumTopics)]
    /\ expElogbeta = sync_state(eta, InitSstats)
    /\ num_updates = 0
    /\ pc = "idle"
    /\ args = Effective(NoArgs, lda, 0)
    /\ corpus = ListCorpus(0)
    /\ drained = FALSE
    /\ lencorpus = 0
    /\ pass_ = 0
    /\ bound_iteration = 0
    /\ num_updates_at_pass_start = 0
    /\ last_perwordbound = Inf99
    /\ perwordbound = None
    /\ perwordbound_updated = FALSE
    /\ other = LdaState
    /\ dirty = FALSE
    /\ reallen = 0
    /\ it = [next |-> 1, stop |-> 0, count |-> 0]
    /\ chunk_no = 0
    /\ chunk = <<>>
    /\ error = "none"
    /\ event = "init"
    /\ entry = Snapshot
    /\ inferred = NotInferred
    /\ history = <<>>
    /\ pending = <<>>

\* a model fresh from the constructor, on a single node
Init ==
    /\ \E self \in {Constructed(FALSE, FALSE), Constructed(TRUE, FALSE),
                    Constructed(FALSE, TRUE)},
          r \in RespChoices : InitModel(self, r)
    /\ nodes = <<>>
    /\ absorbed = <<>>
    /\ call = NoCall

\* ---------------------------------------------------------- update: entry
\* ConfigError with `if update_every:` read as `if update_every > 0:`
ConfigError_positive(o) ==
    \/ o.update_every > 0 /\ o.max_bound_iterations > 1
    \/ o.max_bound_iterations < 1
    \/ o.max_bound_iterations > 1 /\ ~(o.eval_every > 0)

\* the contradictory options update raises ValueError for (lines 655-671)
ConfigError(o) ==
    \/ o.update_every # 0 /\ o.max_bound_iterations > 1
    \/ o.max_bound_iterations < 1
    \/ o.max_bound_iterations > 1 /\ ~(o.eval_every > 0)

\* EntryOutcome with the options checked before the corpus is found empty
EntryOutcome_checksFirst(o, lencorpus_) ==
    IF o.max_bound_iterations < 1 THEN "raised"
    ELSE IF lencorpus_ = 0 THEN "returned"
    ELSE "pass_loop"

\* how the prologue of update (lines 621-711) ends for a corpus of
\* lencorpus_ documents: it returns, raises or enters the training loop
EntryOutcome(o, lencorpus_) ==
    IF lencorpus_ = 0 THEN "returned"
    ELSE IF ConfigError(o) THEN "raised"
    ELSE "pass_loop"

\* state.numdocs when the prologue ends (line 653 runs once the corpus is
\* known to be non-empty, before the options are checked)
EntryNumdocs(numdocs_, o, lencorpus_) ==
    IF lencorpus_ = 0 THEN numdocs_ ELSE numdocs_ + lencorpus_

\* len(corpus), or the count of the documents a drain of it yields
CorpusLength(c, drained_) ==
    IF c.haslen THEN c.len ELSE Yields(c, drained_)

\* no traversal has begun: the locals of update before its loops
FreshLocals ==
    /\ pass_' = 0
    /\ bound_iteration' = 0
    /\ num_updates_at_pass_start' = num_updates
    /\ last_perwordbound' = Inf99
    /\ perwordbound' = None
    /\ perwordbound_updated' = FALSE
    /\ other' = LdaState
    /\ dirty' = FALSE
    /\ reallen' = 0
    /\ it' = [next |-> 1, stop |-> 0, count |-> 0]
    /\ chunk_no' = 0
    /\ chunk' = <<>>
    /\ history' = <<>>
    /\ pending' = <<>>

\* update(corpus c, options a) up to the head of its loops (lines 593-711);
\* c is a corpus nothing has traversed yet
Update(a, c) ==
    /\ LET n == CorpusLength(c, FALSE)
           o == Effective(a, lda, n)
           outcome == EntryOutcome(o, n)
       IN  /\ corpus' = c
           /\ drained' = (~c.haslen /\ c.oneshot)
           /\ lencorpus' = n
           /\ args' = o
           /\ entry' = Snapshot
           /\ state' = [state EXCEPT !.numdocs = EntryNumdocs(@, o, n)]
           /\ pc' = outcome
           /\ error' = IF outcome = "raised" THEN "ValueError" ELSE "none"
    /\ FreshLocals
    /\ event' = "update"
    /\ inferred' = NotInferred
    /\ UNCHANGED <<lda, eta, alpha, expElogbeta, num_updates, resp,
                   clusterVars>>

\* the history with step e added to the bound-iteration under way
Logged(h, e) == [h EXCEPT ![Len(h)] = Append(@, e)]

\* ------------------------------------------------------ update: the loops
\* for pass_ in xrange(passes) (lines 713-715)
PassStart ==
    /\ pc = "pass_loop"
    /\ IF pass_ < args.passes
       THEN /\ num_updates_at_pass_start' = num_updates
            /\ last_perwordbound' = Inf99
            /\ bound_iteration' = 0
            /\ pc' = "bound_loop"
            /\ history' = <<>>
       ELSE /\ pc' = "returned"
            /\ UNCHANGED <<num_updates_at_pass_start, last_perwordbound,
                           bound_iteration, history>>
    /\ event' = "pass"
    /\ inferred' = NotInferred
    /\ UNCHANGED <<modelVars, callVars, pass_, iterVars, error, entry, resp,
                   clusterVars, pending>>

\* ResetNumUpdates leaving num_updates as the last bound-iteration left it
ResetNumUpdates_never(bi, at_pass_start, nu) == nu

\* ResetNumUpdates with the counter set back to zero, not to the value at
\* the start of the pass
ResetNumUpdates_toZero(bi, at_pass_start, nu) ==
    IF bi > 0 THEN 0 ELSE nu

\* lines 717-719: num_updates at the head of bound-iteration number bi
ResetNumUpdates(bi, at_pass_start, nu) ==
    IF bi > 0 THEN at_pass_start ELSE nu

\* the head of a bound-iteration (lines 716-730): num_updates is reset, the
\* accumulator is fresh and a traversal of the corpus begins
BoundIterationStart ==
    /\ pc = "bound_loop"
    /\ num_updates' = ResetNumUpdates(bound_iteration,
                                      num_updates_at_pass_start, num_updates)
    /\ other' = LdaState
    /\ dirty' = FALSE
    /\ reallen' = 0
    /\ perwordbound_updated' = FALSE
    /\ history' = Append(history, <<>>)
    /\ pending' = <<>>
    /\ it' = [next |-> 1, stop |-> Yields(corpus, drained), count |-> 0]
    /\ drained' = (drained \/ corpus.oneshot)
    /\ pc' = "chunk_loop"
    /\ event' = "bound_iteration"
    /\ inferred' = NotInferred
    /\ UNCHANGED <<lda, state, eta, alpha, expElogbeta, args, corpus,
                   lencorpus, loopVars, perwordbound, chunk_no, chunk, error,
                   entry, resp, clusterVars>>

\* ----------------------------------------------------- learning-rate rho
\* pow(b, e) for the exponents the modelled decay gives
pow(b, e) ==
    CASE e = R(-1) -> RDiv(R(1), b)
      [] e = R(0) -> R(1)
      [] e = R(1) -> b

\* offset + pass_ + (self.num_updates / chunksize): `/` divides two ints
RhoBase(o, p, nu) == RAdd(RAdd(o.offset, R(p)), R(nu \div o.chunksize))

\* pow raises ZeroDivisionError for a zero base and a negative exponent
RhoRaises(o, p, nu) == RhoBase(o, p, nu) = R(0) /\ RPos(o.decay)

rho(o, p, nu) == pow(RhoBase(o, p, nu), RNeg(o.decay))

\* ------------------------------------------------------------------ M-step
\* do_mstep without the count of the documents it consumed
do_mstep_neverCounts(m, rho_, other_, extra_pass, optimize_eta, deta) ==
    LET blended == blend(m.state, rho_, other_, None)
    IN  [state |-> blended,
         expElogbeta |-> sync_state(m.eta, blended.sstats),
         eta |-> IF optimize_eta THEN update_eta(m.eta, rho_, deta)
                 ELSE m.eta,
         num_updates |-> m.num_updates]

\* do_mstep without the test of extra_pass: every M-step counts its documents
do_mstep_alwaysCounts(m, rho_, other_, extra_pass, optimize_eta, deta) ==
    LET blended == blend(m.state, rho_, other_, None)
    IN  [state |-> blended,
         expElogbeta |-> sync_state(m.eta, blended.sstats),
         eta |-> IF optimize_eta THEN update_eta(m.eta, rho_, deta)
                 ELSE m.eta,
         num_updates |-> m.num_updates + other_.numdocs]

\* do_mstep(rho, other, extra_pass) on the model m = [state, eta,
\* expElogbeta, num_updates], with deta the direction update_eta computes
do_mstep(m, rho_, other_, extra_pass, optimize_eta, deta) ==
    LET blended == blend(m.state, rho_, other_, None)
    IN  [state |-> blended,
         expElogbeta |-> sync_state(m.eta, blended.sstats),
         eta |-> IF optimize_eta THEN update_eta(m.eta, rho_, deta)
                 ELSE m.eta,
         num_updates |-> IF ~extra_pass THEN m.num_updates + other_.numdocs
                         ELSE m.num_updates]

Model == [state |-> state, eta |-> eta, expElogbeta |-> expElogbeta,
          num_updates |-> num_updates]

\* the values log_perplexity may return
BoundVals == {R(-4), R(-2)}

\* the improvement taken as the difference alone, not relative to last
RelativeImprovement_absolute(last, cur) ==
    IF last = Inf99 THEN R(1) ELSE RSub(last, cur)

\* (last_perwordbound - perwordbound) / last_perwordbound; with
\* last_perwordbound = 1e99 the quotient rounds to 1.0
RelativeImprovement(last, cur) ==
    IF last = Inf99 THEN R(1) ELSE RDiv(RSub(last, cur), last)

\* ------------------------------------------------- update: the chunk loop
\* MStepDue testing the chunk's index where the code tests the index + 1
MStepDue_byIndex(o, self, n) ==
    o.update_every # 0 /\ PyMod(n, o.update_every * self.numworkers) = 0

\* whether the M-step of lines 756-769 runs after chunk number n
MStepDue(o, self, n) ==
    o.update_every # 0 /\ PyMod(n + 1, o.update_every * self.numworkers) = 0

\* EvalDue without the test for the chunk that completes the corpus
EvalDue_periodicOnly(o, self, n, reallen_, lencorpus_) ==
    /\ o.eval_every # 0
    /\ PyMod(n + 1, o.eval_every * self.numworkers) = 0

\* whether the bound is evaluated on chunk number n (line 733)
EvalDue(o, self, n, reallen_, lencorpus_) ==
    /\ o.eval_every # 0
    /\ \/ reallen_ = lencorpus_
       \/ PyMod(n + 1, o.eval_every * self.numworkers) = 0

\* ------------------------------------------------- evaluating the bound
\* the attributes of self a call may assign
Self == [state |-> state, eta |-> eta, alpha |-> alpha,
         expElogbeta |-> expElogbeta, num_updates |-> num_updates]

\* self after inference(chunk, collect_sstats=False): gamma and sstats are
\* fresh arrays, and no attribute of self is assigned
inference_only(self, chunk_) == self

RECURSIVE bound_docs(_, _)
\* self after the loop of bound over the documents of the chunk, which
\* calls inference([doc]) for each
bound_docs(self, chunk_) ==
    IF chunk_ = <<>> THEN self
    ELSE bound_docs(inference_only(self, <<Head(chunk_)>>), Tail(chunk_))

\* bound(chunk, subsample_ratio): self afterwards, and the score
bound(self, chunk_, score) ==
    [self |-> bound_docs(self, chunk_), score |-> score]

\* log_perplexity evaluated by an E-step into self.state, as
\* do_estep(chunk) with its default state would
log_perplexity_accumulates(self, chunk_, b) ==
    [self |-> [self EXCEPT !.state =
                  do_estep(@, inference(chunk_, lda.iterations,
                                        lda.gamma_threshold, resp, <<R(1)>>))],
     perwordbound |-> b]

\* log_perplexity(chunk, total_docs): self afterwards, and the per-word
\* bound b it returns
log_perplexity(self, chunk_, b) ==
    LET r == bound(self, chunk_, b)
    IN  [self |-> r.self, perwordbound |-> r.score]

\* the next chunk of utils.grouper(corpus, chunksize), and the evaluation of
\* the bound on it (lines 730-735)
NextChunk ==
    /\ pc = "chunk_loop"
    /\ it.next <= it.stop
    /\ LET size == Min(args.chunksize, it.stop - it.next + 1)
           ch == [i \in 1..size |-> it.next + i - 1]
       IN  /\ chunk' = ch
           /\ chunk_no' = it.count
           /\ it' = [it EXCEPT !.next = @ + size, !.count = @ + 1]
           /\ reallen' = reallen + size
           /\ IF EvalDue(args, lda, it.count, reallen + size, lencorpus)
              THEN /\ \E b \in BoundVals :
                        LET r == log_perplexity(Self, ch, b)
                        IN  /\ perwordbound' = r.perwordbound
                            /\ state' = r.self.state
                            /\ eta' = r.self.eta
                            /\ alpha' = r.self.alpha
                            /\ expElogbeta' = r.self.expElogbeta
                            /\ num_updates' = r.self.num_updates
                   /\ perwordbound_updated' = TRUE
                   /\ event' = "eval"
              ELSE /\ UNCHANGED <<perwordbound, perwordbound_updated, state,
                                  eta, alpha, expElogbeta, num_updates>>
                   /\ event' = "chunk"
    /\ pc' = "estep"
    /\ inferred' = NotInferred
    /\ UNCHANGED <<lda, callVars, loopVars, other, dirty, error, entry,
                   resp, clusterVars, historyVars>>

\* do_estep on the chunk and, with alpha='auto', update_alpha (lines 744-753)
EStep(mc, dalpha) ==
    /\ pc = "estep"
    /\ LET inf == inference(chunk, lda.iterations, lda.gamma_threshold,
                            resp, mc)
       IN  /\ other' = do_estep(other, inf)
           /\ inferred' = [iters |-> inf.iters, mc |-> mc]
           /\ history' = Logged(history,
                 [kind |-> "E", chunk_no |-> chunk_no, docs |-> chunk,
                  chunks |-> <<chunk_no>>, acc |-> do_estep(other, inf),
                  nu |-> num_updates,
                  rate |-> IF lda.optimize_alpha
                              /\ ~RhoRaises(args, pass_, num_updates)
                           THEN Some(rho(args, pass_, num_updates))
                           ELSE None])
           /\ pending' = Append(pending, chunk_no)
    /\ IF lda.optimize_alpha /\ RhoRaises(args, pass_, num_updates)
       THEN /\ pc' = "raised"
            /\ error' = "ZeroDivisionError"
            /\ UNCHANGED <<alpha, dirty>>
       ELSE /\ alpha' = IF lda.optimize_alpha
                        THEN update_alpha(alpha,
                                 rho(args, pass_, num_updates), dalpha)
                        ELSE alpha
            /\ dirty' = TRUE
            /\ pc' = IF MStepDue(args, lda, chunk_no) THEN "mstep"
                     ELSE "chunk_loop"
            /\ error' = error
    /\ event' = "estep"
    /\ UNCHANGED <<lda, state, eta, expElogbeta, num_updates, callVars,
                   loopVars, perwordbound, perwordbound_updated, reallen, it,
                   chunk_no, chunk, entry, resp, clusterVars>>

\* the M-step after update_every * numworkers chunks (lines 756-769)
MStep(deta) ==
    /\ pc = "mstep"
    /\ IF RhoRaises(args, pass_, num_updates)
       THEN /\ pc' = "raised"
            /\ error' = "ZeroDivisionError"
            /\ UNCHANGED <<state, eta, expElogbeta, num_updates, other,
                           dirty, historyVars>>
       ELSE LET m == do_mstep(Model, rho(args, pass_, num_updates), other,
                              pass_ > 0, lda.optimize_eta, deta)
            IN  /\ state' = m.state
                /\ eta' = m.eta
                /\ expElogbeta' = m.expElogbeta
                /\ num_updates' = m.num_updates
                /\ other' = LdaState
                /\ dirty' = FALSE
                /\ pc' = "chunk_loop"
                /\ history' = Logged(history,
                      [kind |-> "M", chunk_no |-> chunk_no, docs |-> <<>>,
                       chunks |-> pending, acc |-> other,
                       nu |-> num_updates,
                       rate |-> Some(rho(args, pass_, num_updates))])
                /\ pending' = <<>>
                /\ error' = error
    /\ event' = "mstep"
    /\ inferred' = NotInferred
    /\ UNCHANGED <<lda, alpha, callVars, loopVars, perwordbound,
                   perwordbound_updated, reallen, it, chunk_no, chunk, entry,
                   resp, clusterVars>>

\* SizeChanged noticing only a corpus that came up short
SizeChanged_shortOnly(reallen_, lencorpus_) == reallen_ < lencorpus_

\* line 771: the traversal did not yield the documents counted at entry
SizeChanged(reallen_, lencorpus_) == reallen_ # lencorpus_

\* the corpus is exhausted: the check of its size (lines 771-772)
EndTraversal ==
    /\ pc = "chunk_loop"
    /\ it.next > it.stop
    /\ IF SizeChanged(reallen, lencorpus)
       THEN /\ pc' = "raised"
            /\ error' = "RuntimeError"
       ELSE /\ pc' = IF dirty THEN "final_mstep" ELSE "bound_test"
            /\ error' = error
    /\ event' = "end_traversal"
    /\ inferred' = NotInferred
    /\ UNCHANGED <<modelVars, callVars, loopVars, iterVars, entry, resp,
                   clusterVars, historyVars>>

\* the M-step that finishes the traversal (lines 774-782)
FinalMStep(deta) ==
    /\ pc = "final_mstep"
    /\ IF RhoRaises(args, pass_, num_updates)
       THEN /\ pc' = "raised"
            /\ error' = "ZeroDivisionError"
            /\ UNCHANGED <<state, eta, expElogbeta, num_updates, other,
                           dirty, historyVars>>
       ELSE LET m == do_mstep(Model, rho(args, pass_, num_updates), other,
                              pass_ > 0, lda.optimize_eta, deta)
            IN  /\ state' = m.state
                /\ eta' = m.eta
                /\ expElogbeta' = m.expElogbeta
                /\ num_updates' = m.num_updates
                /\ other' = LdaState
                /\ dirty' = FALSE
                /\ pc' = "bound_test"
                /\ history' = Logged(history,
                      [kind |-> "M", chunk_no |-> chunk_no, docs |-> <<>>,
                       chunks |-> pending, acc |-> other,
                       nu |-> num_updates,
                       rate |-> Some(rho(args, pass_, num_updates))])
                /\ pending' = <<>>
                /\ error' = error
    /\ event' = "mstep"
    /\ inferred' = NotInferred
    /\ UNCHANGED <<lda, alpha, callVars, loopVars, perwordbound,
                   perwordbound_updated, reallen, it, chunk_no, chunk, entry,
                   resp, clusterVars>>

\* the test that ends the bound-iterations (lines 784-792), and the heads of
\* the two for loops
BoundTest ==
    /\ pc = "bound_test"
    /\ LET stop == /\ perwordbound_updated
                   /\ RLt(RelativeImprovement(last_perwordbound, perwordbound),
                          args.bound_improvement_threshold)
       IN  /\ last_perwordbound' =
                 IF perwordbound_updated /\ ~stop THEN perwordbound
                 ELSE last_perwordbound
           /\ IF ~stop /\ bound_iteration + 1 < args.max_bound_iterations
              THEN /\ bound_iteration' = bound_iteration + 1
                   /\ pc' = "bound_loop"
                   /\ pass_' = pass_
              ELSE /\ pass_' = pass_ + 1
                   /\ pc' = "pass_loop"
                   /\ bound_iteration' = bound_iteration
    /\ event' = "bound_test"
    /\ inferred' = NotInferred
    /\ UNCHANGED <<modelVars, callVars, num_updates_at_pass_start, iterVars,
                   error, entry, resp, clusterVars, historyVars>>

\* ------------------------------------------------------------------ inputs
Corpora ==
    {ListCorpus(n) : n \in 0..MaxDocs}
    \cup {Generator(n) : n \in 0..MaxDocs}
    \cup {Stream(1)}
    \cup {Resized(n, m) : n \in 1..MaxDocs, m \in 1..MaxDocs}

\* the options of the training schedule, in every combination
ScheduleArgs ==
    {[NoArgs EXCEPT !.update_every = Some(ue), !.eval_every = Some(ee),
                    !.max_bound_iterations = Some(mbi), !.passes = Some(p),
                    !.chunksize = cs] :
        ue \in {-1, 0, 1, 2}, ee \in {-1, 0, 1, 2},
        mbi \in 0..MaxBoundIterations, p \in 1..MaxPasses,
        cs \in {None, Some(1)}}

\* the schedules the numeric options are combined with
ShortScheduleArgs ==
    {[NoArgs EXCEPT !.update_every = Some(ue), !.eval_every = Some(1),
                    !.max_bound_iterations = Some(mbi), !.passes = Some(p),
                    !.chunksize = cs] :
        ue \in {0, 1}, mbi \in 1..MaxBoundIterations, p \in 1..MaxPasses,
        cs \in {None, Some(1)}}

OffsetArgs ==
    {[a EXCEPT !.offset = off] :
        a \in ShortScheduleArgs, off \in {None, Some(R(0)), Some(Q(1, 2))}}

InferenceArgs ==
    {[a EXCEPT !.iterations = Some(1)] : a \in ShortScheduleArgs}
    \cup {[a EXCEPT !.gamma_threshold = Some(Q(1, 10))] :
             a \in ShortScheduleArgs}

\* batch schedules with room for one bound-iteration more, and with a
\* threshold that the first bound already meets
ConvergenceArgs ==
    {[NoArgs EXCEPT !.update_every = Some(0), !.eval_every = Some(1),
                    !.max_bound_iterations = Some(MaxBoundIterations + 1),
                    !.bound_improvement_threshold = thr] :
        thr \in {None, Some(R(2))}}

\* a call that leaves every option to the constructor's value
DefaultArgs == {NoArgs}

\* update returned from a call with the constructor's options on a
\* non-empty corpus: the model is trained, and may be trained further
Trained ==
    /\ pc = "returned"
    /\ lencorpus > 0
    /\ args = Effective(NoArgs, lda, lencorpus)

\* The calls of update explored: a model without optimizers with every
\* schedule on every corpus, and with the overrides of iterations and
\* gamma_threshold; a model with either optimizer, and the offsets, with
\* the short schedules on the well-behaved corpora; and any of these on a
\* model that a call with the constructor's options has trained.
Explored(self, a, c) ==
    \/ /\ ~self.optimize_alpha /\ ~self.optimize_eta
       /\ a \in ScheduleArgs
       /\ c \in Corpora
    \/ /\ ~self.optimize_alpha /\ ~self.optimize_eta
       /\ a \in InferenceArgs
       /\ c \in {ListCorpus(n) : n \in 1..MaxDocs}
    \/ /\ a \in OffsetArgs
       /\ c \in {ListCorpus(n) : n \in 1..MaxDocs}
    \/ /\ ~self.optimize_alpha /\ ~self.optimize_eta
       /\ a \in ConvergenceArgs
       /\ c \in {ListCorpus(n) : n \in 1..MaxDocs}
    \/ /\ pc = "idle"
       /\ a \in DefaultArgs
       /\ c \in {ListCorpus(n) : n \in 1..MaxDocs}

Next ==
    \/ /\ pc = "idle" \/ Trained
       /\ \E a \in ScheduleArgs \cup OffsetArgs \cup InferenceArgs
                    \cup ConvergenceArgs \cup DefaultArgs,
             c \in Corpora : Explored(lda, a, c) /\ Update(a, c)
    \/ PassStart
    \/ BoundIterationStart
    \/ NextChunk
    \/ \E mc \in MeanChangeSeqs, dalpha \in NewtonDirections :
          EStep(mc, dalpha)
    \/ \E deta \in NewtonDirections : MStep(deta)
    \/ EndTraversal
    \/ \E deta \in NewtonDirections : FinalMStep(deta)
    \/ BoundTest

Spec == Init /\ [][Next]_vars

\* ------------------------------------------------- merging LdaStates
NumNodes == 3   \* the nodes whose states are merged

\* what a node holds after the E-step of its chunk
NodeStates ==
    {do_estep(LdaState,
              inference(ch, Constructed(FALSE, FALSE).iterations,
                        Constructed(FALSE, FALSE).gamma_threshold, r,
                        <<R(1)>>)) :
        ch \in {<<1>>, <<1, 2>>}, r \in RespChoices}

\* Each node starts from the result of its own E-step; states are then
\* merged pairwise, in any order and grouping.  A node whose state was
\* merged into another takes no further part.
InitMerge ==
    /\ InitModel(Constructed(FALSE, FALSE), [k \in Topics |-> Q(1, NumTopics)])
    /\ \E f \in [1..NumNodes -> NodeStates] :
          nodes = [i \in 1..NumNodes |->
                      [estep |-> f[i], state |-> f[i], live |-> TRUE]]
    /\ absorbed = [i \in 1..NumNodes |-> {i}]
    /\ call = NoCall

\* nodes[i].state.merge(nodes[j].state)
Merge(i, j) ==
    /\ i # j
    /\ nodes[i].live /\ nodes[j].live
    /\ nodes' = [nodes EXCEPT ![i].state = merge(@, nodes[j].state),
                              ![j].live = FALSE]
    /\ absorbed' = [absorbed EXCEPT ![i] = @ \cup absorbed[j]]
    /\ UNCHANGED <<modelVars, callVars, loopVars, iterVars, pc, error, event,
                   entry, inferred, resp, call, historyVars>>

NextMerge == \E i \in 1..NumNodes, j \in 1..NumNodes : Merge(i, j)

MergeSpec == InitMerge /\ [][NextMerge]_vars

\* ------------------------------------------- E-steps spread over workers
RECURSIVE grouper(_, _, _)
\* utils.grouper(corpus, chunksize): documents first..n in chunks of cs
grouper(first, n, cs) ==
    IF first > n THEN <<>>
    ELSE LET size == Min(cs, n - first + 1)
         IN  <<[i \in 1..size |-> first + i - 1]>>
                 \o grouper(first + size, n, cs)

\* the chunk sequences handed out: a corpus cut into chunks of 1 or 2
ChunkSeqs == {grouper(1, n, cs) : n \in 1..MaxDocs + 1, cs \in {1, 2}}

\* Every worker and the single node start from an empty LdaState and the
\* same model; the chunks of call.chunks are handed out one by one.
InitDist ==
    /\ \E r \in RespChoices : InitModel(Constructed(FALSE, FALSE), r)
    /\ nodes = [i \in 1..NumNodes |->
                   [estep |-> LdaState, state |-> LdaState, live |-> TRUE]]
    /\ absorbed = [i \in 1..NumNodes |-> {}]
    /\ \E chunks \in ChunkSeqs :
          call = [op |-> "estep", chunks |-> chunks, done |-> 0]

\* worker i runs do_estep on the next chunk, accumulating in its own state;
\* the single node runs do_estep on the same chunk, accumulating in other
WorkerEStep(i, mc) ==
    /\ call.op = "estep"
    /\ call.done < Len(call.chunks)
    /\ LET inf == inference(call.chunks[call.done + 1], lda.iterations,
                            lda.gamma_threshold, resp, mc)
       IN  /\ nodes' = [nodes EXCEPT ![i].state = do_estep(@, inf)]
           /\ other' = do_estep(other, inf)
    /\ absorbed' = [absorbed EXCEPT ![i] = @ \cup {call.done + 1}]
    /\ call' = [call EXCEPT !.done = @ + 1]
    /\ UNCHANGED <<modelVars, callVars, loopVars, perwordbound,
                   perwordbound_updated, dirty, reallen, it, chunk_no, chunk,
                   pc, error, event, entry, inferred, resp, historyVars>>

\* once every chunk is done the workers' states are merged, in any order
Absorb(i, j) ==
    /\ call.op = "estep"
    /\ call.done = Len(call.chunks)
    /\ Merge(i, j)

NextDist ==
    \/ \E i \in 1..NumNodes, mc \in MeanChangeSeqs : WorkerEStep(i, mc)
    \/ \E i \in 1..NumNodes, j \in 1..NumNodes : Absorb(i, j)

DistSpec == InitDist /\ [][NextDist]_vars

\* ------------------------------------------- update in distributed mode
\* In distributed mode self.dispatcher is a remote object with the
\* operations reset(state), putjob(chunk) and getstate().  `nodes` holds
\* its workers: the model each was last given and the statistics it has
\* accumulated since; self.numworkers is their number.
NumWorkers == 2  \* the largest cluster update is run on

\* reset(state): every worker takes the state and starts a new accumulator
dispatcher_reset(workers, st) ==
    [i \in DOMAIN workers |-> [state |-> LdaState, model |-> Some(st)]]

\* putjob(chunk): worker i runs the E-step of the chunk
dispatcher_putjob(workers, i, inf) ==
    [workers EXCEPT ![i].state = do_estep(@, inf)]

RECURSIVE merged_from(_, _)
\* the workers' accumulators from worker i on, merged
merged_from(workers, i) ==
    IF i > Len(workers) THEN LdaState
    ELSE merge(workers[i].state, merged_from(workers, i + 1))

\* getstate(): the accumulators of all workers, merged, once no job is
\* outstanding
dispatcher_getstate(workers) == merged_from(workers, 1)

\* the call of reset left out
reset_workers_skipped(workers, st) == workers

\* self.dispatcher.reset(self.state) (lines 723 and 766)
reset_workers(workers, st) == dispatcher_reset(workers, st)

\* a model constructed with distributed=True on a cluster of nw workers,
\* none of which has been given a state yet
InitDispatch ==
    \E nw \in 1..NumWorkers :
       /\ \E r \in RespChoices :
             InitModel([Constructed(FALSE, FALSE) EXCEPT !.numworkers = nw],
                       r)
       /\ nodes = [i \in 1..nw |-> [state |-> LdaState, model |-> None]]
       /\ absorbed = <<>>
       /\ call = NoCall

\* the head of a bound-iteration (lines 716-730) with a dispatcher
DispatchBoundIterationStart ==
    /\ pc = "bound_loop"
    /\ num_updates' = ResetNumUpdates(bound_iteration,
                                      num_updates_at_pass_start, num_updates)
    /\ nodes' = reset_workers(nodes, state)
    /\ history' = Append(history, <<[kind |-> "reset", model |-> state]>>)
    /\ pending' = <<>>
    /\ dirty' = FALSE
    /\ reallen' = 0
    /\ perwordbound_updated' = FALSE
    /\ it' = [next |-> 1, stop |-> Yields(corpus, drained), count |-> 0]
    /\ drained' = (drained \/ corpus.oneshot)
    /\ pc' = "chunk_loop"
    /\ event' = "reset"
    /\ inferred' = NotInferred
    /\ UNCHANGED <<lda, state, eta, alpha, expElogbeta, args, corpus,
                   lencorpus, loopVars, perwordbound, other, chunk_no, chunk,
                   error, entry, resp, absorbed, call>>

\* self.dispatcher.putjob(chunk) (lines 738-753): worker i takes the job
PutJob(i, mc) ==
    /\ pc = "estep"
    /\ i \in DOMAIN nodes
    /\ LET inf == inference(chunk, lda.iterations, lda.gamma_threshold,
                            resp, mc)
       IN  /\ nodes' = dispatcher_putjob(nodes, i, inf)
           /\ inferred' = [iters |-> inf.iters, mc |-> mc]
    /\ history' = Logged(history,
          [kind |-> "putjob", chunk_no |-> chunk_no, worker |-> i,
           model |-> nodes[i].model, current |-> state])
    /\ pending' = Append(pending, chunk_no)
    /\ dirty' = TRUE
    /\ pc' = IF MStepDue(args, lda, chunk_no) THEN "mstep" ELSE "chunk_loop"
    /\ event' = "putjob"
    /\ UNCHANGED <<modelVars, callVars, loopVars, perwordbound,
                   perwordbound_updated, other, reallen, it, chunk_no, chunk,
                   error, entry, resp, absorbed, call>>

\* lines 756-769 with a dispatcher: getstate, the M-step, reset
GetStateMStep(deta) ==
    /\ pc = "mstep"
    /\ LET merged == dispatcher_getstate(nodes)
           got == [kind |-> "getstate", acc |-> merged]
       IN  IF RhoRaises(args, pass_, num_updates)
           THEN /\ pc' = "raised"
                /\ error' = "ZeroDivisionError"
                /\ other' = merged
                /\ history' = Logged(history, got)
                /\ UNCHANGED <<state, eta, expElogbeta, num_updates, dirty,
                               pending, nodes>>
           ELSE LET m == do_mstep(Model, rho(args, pass_, num_updates),
                                  merged, pass_ > 0, lda.optimize_eta, deta)
                IN  /\ state' = m.state
                    /\ eta' = m.eta
                    /\ expElogbeta' = m.expElogbeta
                    /\ num_updates' = m.num_updates
                    /\ other' = LdaState
                    /\ nodes' = reset_workers(nodes, m.state)
                    /\ history' = Logged(Logged(Logged(history, got),
                          [kind |-> "M", chunk_no |-> chunk_no,
                           chunks |-> pending, acc |-> merged,
                           nu |-> num_updates,
                           rate |-> Some(rho(args, pass_, num_updates))]),
                          [kind |-> "reset", model |-> m.state])
                    /\ pending' = <<>>
                    /\ dirty' = FALSE
                    /\ pc' = "chunk_loop"
                    /\ error' = error
    /\ event' = "mstep"
    /\ inferred' = NotInferred
    /\ UNCHANGED <<lda, alpha, callVars, loopVars, perwordbound,
                   perwordbound_updated, reallen, it, chunk_no, chunk, entry,
                   resp, absorbed, call>>

\* lines 774-782 with a dispatcher: getstate and the M-step that finishes
\* the traversal
FinalGetStateMStep(deta) ==
    /\ pc = "final_mstep"
    /\ LET merged == dispatcher_getstate(nodes)
           got == [kind |-> "getstate", acc |-> merged]
       IN  IF RhoRaises(args, pass_, num_updates)
           THEN /\ pc' = "raised"
                /\ error' = "ZeroDivisionError"
                /\ other' = merged
                /\ history' = Logged(history, got)
                /\ UNCHANGED <<state, eta, expElogbeta, num_updates, dirty,
                               pending>>
           ELSE LET m == do_mstep(Model, rho(args, pass_, num_updates),
                                  merged, pass_ > 0, lda.optimize_eta, deta)
                IN  /\ state' = m.state
                    /\ eta' = m.eta
                    /\ expElogbeta' = m.expElogbeta
                    /\ num_updates' = m.num_updates
                    /\ other' = LdaState
                    /\ history' = Logged(Logged(history, got),
                          [kind |-> "M", chunk_no |-> chunk_no,
                           chunks |-> pending, acc |-> merged,
                           nu |-> num_updates,
                           rate |-> Some(rho(args, pass_, num_updates))])
                    /\ pending' = <<>>
                    /\ dirty' = FALSE
                    /\ pc' = "bound_test"
                    /\ error' = error
    /\ event' = "mstep"
    /\ inferred' = NotInferred
    /\ UNCHANGED <<lda, alpha, callVars, loopVars, perwordbound,
                   perwordbound_updated, reallen, it, chunk_no, chunk, entry,
                   resp, clusterVars>>

\* the schedules and offsets update is called with on the cluster
DispatchArgs ==
    {[NoArgs EXCEPT !.update_every = Some(ue), !.eval_every = Some(ee),
                    !.max_bound_iterations = Some(mbi), !.passes = Some(p),
                    !.chunksize = cs, !.offset = off] :
        ue \in {0, 1, 2}, ee \in {0, 1}, mbi \in 1..MaxBoundIterations,
        p \in 1..MaxPasses, cs \in {None, Some(1)},
        off \in {None, Some(R(0))}}

NextDispatch ==
    \/ /\ pc = "idle"
       /\ \E a \in DispatchArgs, n \in 0..MaxDocs : Update(a, ListCorpus(n))
    \/ PassStart
    \/ DispatchBoundIterationStart
    \/ NextChunk
    \/ \E i \in 1..NumWorkers, mc \in MeanChangeSeqs : PutJob(i, mc)
    \/ \E deta \in NewtonDirections : GetStateMStep(deta)
    \/ EndTraversal
    \/ \E deta \in NewtonDirections : FinalGetStateMStep(deta)
    \/ BoundTest

DispatchSpec == InitDispatch /\ [][NextDispatch]_vars

\* ------------------------------------------ the options of the constructor
sys_maxint == 2147483647  \* sys.maxint

\* lines 277-301: algorithm == 'batch'; k holds the keyword arguments
batch_preset(k) ==
    IF k.update_every # None /\ k.update_every[1] # 0
    THEN [k EXCEPT !.error = "ValueError"]
    ELSE IF k.eval_every # None /\ k.eval_every[1] = 0
    THEN [k EXCEPT !.error = "ValueError"]
    ELSE IF k.chunksize # None /\ k.chunksize[1] < sys_maxint
    THEN [k EXCEPT !.error = "ValueError"]
    ELSE IF k.passes # None /\ k.passes[1] > 1
    THEN [k EXCEPT !.error = "ValueError"]
    ELSE IF k.max_bound_iterations # None /\ k.max_bound_iterations[1] <= 1
    THEN [k EXCEPT !.error = "ValueError"]
    ELSE [k EXCEPT !.update_every = Some(Default(k.update_every, 0)),
                   !.eval_every = Some(Default(k.eval_every, 1)),
                   !.chunksize = Some(Default(k.chunksize, sys_maxint)),
                   !.passes = Some(Default(k.passes, 1)),
                   !.max_bound_iterations =
                       Some(Default(k.max_bound_iterations, 1000))]

\* lines 303-312: algorithm == 'online'
online_preset(k) ==
    IF k.update_every # None /\ k.update_every[1] <= 0
    THEN [k EXCEPT !.error = "ValueError"]
    ELSE IF k.max_bound_iterations # None /\ k.max_bound_iterations[1] # 1
    THEN [k EXCEPT !.error = "ValueError"]
    ELSE [k EXCEPT !.update_every = Some(Default(k.update_every, 1)),
                   !.max_bound_iterations =
                       Some(Default(k.max_bound_iterations, 1))]

\* lines 277-315: the presets
presets(k) ==
    IF k.algorithm = Some("batch") THEN batch_preset(k)
    ELSE IF k.algorithm = Some("online") THEN online_preset(k)
    ELSE IF k.algorithm # None THEN [k EXCEPT !.error = "ValueError"]
    ELSE k

\* lines 277-339: the options __init__ stores in self, given its keyword
\* arguments, or the error it raises
init_options(kwargs) ==
    LET k == presets([kwargs EXCEPT !.error = "none"])
    IN  IF k.error # "none" THEN [error |-> k.error]
        ELSE [error |-> "none",
              update_every |-> Default(k.update_every, 1),
              eval_every |-> Default(k.eval_every, 10),
              chunksize |-> Default(k.chunksize, 2000),
              passes |-> k.passes,
              max_bound_iterations |-> Default(k.max_bound_iterations, 1)]

\* the keyword arguments the constructor is called with (corpus=None)
Algorithms == {None, Some("batch"), Some("online"), Some("hybrid")}
Kwargs ==
    [algorithm : Algorithms,
     update_every : {None, Some(-1), Some(0), Some(1)},
     eval_every : {None, Some(-1), Some(0), Some(1)},
     chunksize : {None, Some(1), Some(sys_maxint)},
     passes : {None, Some(0), Some(1), Some(2)},
     max_bound_iterations : {None, Some(1), Some(2)},
     error : {"none"}]

\* a call of LdaModel(id2word=..., **kwargs) about to run
InitConstruct ==
    /\ InitModel(Constructed(FALSE, FALSE), [k \in Topics |-> Q(1, NumTopics)])
    /\ nodes = <<>>
    /\ absorbed = <<>>
    /\ \E k \in Kwargs : call = [op |-> "construct", kwargs |-> k,
                                  returned |-> FALSE]

\* LdaModel.__init__ with no corpus
Construct ==
    /\ call.op = "construct"
    /\ ~call.returned
    /\ LET o == init_options(call.kwargs)
       IN  /\ error' = o.error
           /\ lda' = IF o.error # "none" THEN lda
                     ELSE [lda EXCEPT
                             !.update_every = o.update_every,
                             !.eval_every = o.eval_every,
                             !.chunksize = o.chunksize,
                             !.passes = Default(o.passes, None),
                             !.max_bound_iterations = o.max_bound_iterations]
    /\ call' = [call EXCEPT !.returned = TRUE]
    /\ event' = "construct"
    /\ UNCHANGED <<state, eta, alpha, expElogbeta, num_updates, callVars,
                   loopVars, iterVars, pc, entry, inferred, resp, nodes,
                   absorbed, historyVars>>

NextConstruct == Construct

ConstructSpec == InitConstruct /\ [][NextConstruct]_vars

\* ------------------------------------- inference: the fixed-point loop
MaxIterations == 3  \* the largest self.iterations inference is run with

\* numpy.mean(gammad - lastgamma): the mean of the differences as they are
meanchange_signed(gammad, lastgamma) ==
    RDiv(SumOver([k \in Topics |-> RSub(gammad[k], lastgamma[k])], Topics),
         R(NumTopics))

\* numpy.mean(abs(gammad - lastgamma)) (line 479)
meanchange(gammad, lastgamma) ==
    RDiv(SumOver([k \in Topics |->
                     LET diff == RSub(gammad[k], lastgamma[k])
                     IN  IF RLt(diff, R(0)) THEN RNeg(diff) ELSE diff],
                 Topics),
         R(NumTopics))

\* expElogthetad * numpy.dot(cts / phinorm, expElogbetad.T): a sum over the
\* words of the document, zero for a document without words, and some
\* amount c for each topic otherwise
gamma_term(doc, c) ==
    IF doc = <<>> THEN [k \in Topics |-> R(0)] ELSE [k \in Topics |-> c]

\* gammad = self.alpha + expElogthetad * numpy.dot(...) (line 475)
gammad_update(alpha_, term) == [k \in Topics |-> RAdd(alpha_[k], term[k])]

\* the documents, values of numpy.random.gamma, thresholds and amounts the
\* loop is run on
InferenceDocs == {<<>>, DocAt(1)}
InitialGammas == {[k \in Topics |-> R(1)], [k \in Topics |-> Q(1, NumTopics)]}
GammaThresholds == {R(0), Q(1, 1000), R(1)}
GammaTerms == {Q(1, 2), R(2)}

\* inference([doc]) has initialised gamma and is about to enter the loop of
\* document doc; course gives, for each iteration, the amount of its term
InitInfer ==
    /\ \E it_ \in 0..MaxIterations, thr \in GammaThresholds :
          InitModel([Constructed(FALSE, FALSE) EXCEPT
                        !.iterations = it_, !.gamma_threshold = thr],
                    [k \in Topics |-> Q(1, NumTopics)])
    /\ nodes = <<>>
    /\ absorbed = <<>>
    /\ \E doc \in InferenceDocs, g \in InitialGammas,
          course \in [1..MaxIterations -> GammaTerms] :
          /\ doc = <<>> => \A i \in 1..MaxIterations : course[i] = R(2)
          /\ call = [op |-> "inference", doc |-> doc, course |-> course,
                     gammad |-> g, lastgamma |-> g, trail |-> <<g>>,
                     i |-> 0, broke |-> FALSE, returned |-> FALSE,
                     gamma |-> g]

\* one iteration of `for _ in xrange(self.iterations)` (lines 469-482)
Iterate ==
    /\ call.op = "inference"
    /\ ~call.returned /\ ~call.broke
    /\ call.i < lda.iterations
    /\ LET gammad == gammad_update(alpha,
                          gamma_term(call.doc, call.course[call.i + 1]))
       IN  call' = [call EXCEPT
                       !.lastgamma = call.gammad,
                       !.gammad = gammad,
                       !.trail = Append(@, gammad),
                       !.i = @ + 1,
                       !.broke = RLt(meanchange(gammad, call.gammad),
                                     lda.gamma_threshold)]
    /\ UNCHANGED <<modelVars, callVars, loopVars, iterVars, pc, error, event,
                   entry, inferred, resp, nodes, absorbed, historyVars>>

\* the loop is left: gamma[d, :] = gammad (line 483)
LeaveLoop ==
    /\ call.op = "inference"
    /\ ~call.returned
    /\ call.broke \/ call.i >= lda.iterations
    /\ call' = [call EXCEPT !.gamma = call.gammad, !.returned = TRUE]
    /\ UNCHANGED <<modelVars, callVars, loopVars, iterVars, pc, error, event,
                   entry, inferred, resp, nodes, absorbed, historyVars>>

NextInfer == Iterate \/ LeaveLoop

\* the loop is under way: one of its two steps can be taken
InferenceRuns == call.op = "inference" /\ ~call.returned

\* The loop is sequential code: a step that can be taken is taken.  This is
\* WF_vars(NextInfer) with ENABLED <<NextInfer>>_vars written out as
\* InferenceRuns, the disjunction of the guards of Iterate and LeaveLoop.
InferSpec ==
    /\ InitInfer
    /\ [][NextInfer]_vars
    /\ ([]<>(~InferenceRuns) \/ []<><<NextInfer>>_vars)

\* ------------------------------------------- the optimizers of the priors
MaxOptimizerCalls == 3  \* longest sequence of update_alpha / update_eta calls

\* the learning rates and Newton directions the optimizers are called with
PriorRhos == {Q(1, 2), R(1)}
PriorDirections == [Topics -> {R(-1), R(1)}]

\* a model with alpha='auto' and eta='auto', fresh from the constructor
InitPrior ==
    /\ InitModel(Constructed(TRUE, TRUE), [k \in Topics |-> Q(1, NumTopics)])
    /\ nodes = <<>>
    /\ absorbed = <<>>
    /\ call = [op |-> "constructed", n |-> 0]

\* self.update_alpha(gammat, rho), dalpha being the direction it computes
UpdateAlpha(rho_, dalpha) ==
    /\ call.op \in {"constructed", "update_alpha", "update_eta"}
    /\ call.n < MaxOptimizerCalls
    /\ alpha' = update_alpha(alpha, rho_, dalpha)
    /\ call' = [op |-> "update_alpha", n |-> call.n + 1, prior |-> alpha,
                rho |-> rho_, d |-> dalpha]
    /\ UNCHANGED <<lda, state, eta, expElogbeta, num_updates, callVars,
                   loopVars, iterVars, pc, error, event, entry, inferred,
                   resp, nodes, absorbed, historyVars>>

\* self.update_eta(lambdat, rho), deta being the direction it computes
UpdateEta(rho_, deta) ==
    /\ call.op \in {"constructed", "update_alpha", "update_eta"}
    /\ call.n < MaxOptimizerCalls
    /\ eta' = update_eta(eta, rho_, deta)
    /\ call' = [op |-> "update_eta", n |-> call.n + 1, prior |-> eta,
                rho |-> rho_, d |-> deta]
    /\ UNCHANGED <<lda, state, alpha, expElogbeta, num_updates, callVars,
                   loopVars, iterVars, pc, error, event, entry, inferred,
                   resp, nodes, absorbed, historyVars>>

NextPrior ==
    \/ \E rho_ \in PriorRhos, d \in PriorDirections : UpdateAlpha(rho_, d)
    \/ \E rho_ \in PriorRhos, d \in PriorDirections : UpdateEta(rho_, d)

PriorSpec == InitPrior /\ [][NextPrior]_vars

\* ------------------------------------------------- blending two LdaStates
\* sstats with every entry c, or with entry c * (k + w - 1)
Filled(c, graded) ==
    [k \in Topics |-> [w \in Terms |->
        IF graded THEN R(c * (k + w - 1)) ELSE R(c)]]

\* the states blended: empty, fresh from an E-step, or holding counts
BlendStates ==
    {[sstats |-> Filled(c, g), numdocs |-> n] :
        c \in {0, 1, 10}, g \in BOOLEAN, n \in {0, 5, 10}}

BlendRhos == {R(0), Q(1, 2), R(1)}

BlendTargets == {None, Some(0), Some(10)}

\* a.blend(rhot, b, targetsize) is about to be called
InitBlend ==
    /\ InitModel(Constructed(FALSE, FALSE), [k \in Topics |-> Q(1, NumTopics)])
    /\ nodes = <<>>
    /\ absorbed = <<>>
    /\ \E a \in BlendStates, b \in BlendStates, rhot \in BlendRhos,
          t \in BlendTargets :
          call = [op |-> "blend", self |-> a, other |-> b, rhot |-> rhot,
                  targetsize |-> t, returned |-> FALSE]

\* the call: self is replaced by the blend, other is only read
Blend ==
    /\ call.op = "blend"
    /\ ~call.returned
    /\ call' = [op |-> "blend", self |-> call.self, other |-> call.other,
                rhot |-> call.rhot, targetsize |-> call.targetsize,
                returned |-> TRUE,
                self_after |-> blend(call.self, call.rhot, call.other,
                                     call.targetsize),
                other_after |-> call.other]
    /\ UNCHANGED <<modelVars, callVars, loopVars, iterVars, pc, error, event,
                   entry, inferred, resp, nodes, absorbed,
                   historyVars>>

NextBlend == Blend

BlendSpec == InitBlend /\ [][NextBlend]_vars

\* ------------------------------------------------------------------ claims
Terminated == pc \in {"returned", "raised"}

\* do_mstep has just returned (rho() raising comes before the call)
AfterMStep == event = "mstep" /\ pc # "raised"

\* C1: after every call of do_mstep returns, the cached expElogbeta equals
\* exp(dirichlet_expectation(eta + sstats)) of the eta and sstats current at
\* that moment, also when update_eta accepted a step.
C1_CacheInSync ==
    AfterMStep => expElogbeta = sync_state(eta, state.sstats)

\* C2: at every training step lambda = eta + sstats is strictly positive in
\* every entry, for every offset >= 0 and decay in (0.5, 1].
C2_LambdaPositive ==
    \A k \in Topics, w \in Terms : RPos(get_lambda(eta, state.sstats)[k][w])

\* C3 as stated: num_updates never decreases from one step to the next.
C3_NeverDecreases == [][num_updates' >= num_updates]_vars

\* C3 as amended: the only step that lowers num_updates is the head of a
\* bound-iteration after the first, which sets it back to its value at the
\* start of the pass; no other step lowers it, and it is never below the
\* value it had when update was called.
C3_DecreasesOnlyByReset ==
    /\ [](num_updates >= entry.num_updates)
    /\ [][num_updates' < num_updates =>
            /\ pc = "bound_loop"
            /\ bound_iteration > 0
            /\ num_updates' = num_updates_at_pass_start]_vars
    /\ [][num_updates_at_pass_start' # num_updates_at_pass_start =>
            num_updates_at_pass_start' = num_updates]_vars

\* a second bound-iteration of the first pass has begun: the counter the
\* first one raised by lencorpus is back at its value of the pass's start
C3_Witness ==
    /\ event = "bound_iteration"
    /\ bound_iteration > 0
    /\ pass_ = 0
    /\ num_updates = num_updates_at_pass_start

\* C4: num_updates grows only in an M-step of pass 0, and then by exactly
\* other.numdocs; an M-step of pass 0 always adds other.numdocs; nothing else
\* (an M-step of a later pass, an E-step, update_alpha, the bound) raises it.
C4_GrowsOnlyInFirstPassMStep ==
    [][/\ num_updates' > num_updates =>
            /\ pc \in {"mstep", "final_mstep"}
            /\ pass_ = 0
       /\ pc \in {"mstep", "final_mstep"} /\ pc' # "raised" =>
            num_updates' = IF pass_ = 0 THEN num_updates + other.numdocs
                           ELSE num_updates]_vars

\* an M-step of a later pass has run and left the counter where the first
\* pass put it
C4_Witness ==
    /\ AfterMStep
    /\ pass_ > 0
    /\ num_updates = entry.num_updates + lencorpus

\* the rejection C5 states, for the options o
C5_StatedRejection(o) ==
    \/ o.max_bound_iterations < 1
    \/ o.max_bound_iterations > 1 /\ o.update_every > 0
    \/ o.max_bound_iterations > 1 /\ o.eval_every <= 0

\* C5 as stated: on a non-empty corpus update raises the configuration error
\* exactly when max_bound_iterations < 1, or max_bound_iterations > 1 with
\* update_every > 0 or with eval_every <= 0.
C5_RejectedExactlyAsStated ==
    event = "update" /\ lencorpus > 0 =>
        (pc = "raised" <=> C5_StatedRejection(args))

\* C5 as amended: ... exactly when max_bound_iterations < 1, or
\* max_bound_iterations > 1 with update_every # 0 (negative too) or with
\* eval_every <= 0; the error is raised by the prologue, before any E-step
\* or M-step.
C5_RejectedExactly ==
    /\ event = "update" /\ lencorpus > 0 =>
          (pc = "raised" /\ error = "ValueError" <=>
              \/ args.max_bound_iterations < 1
              \/ args.max_bound_iterations > 1 /\ args.update_every # 0
              \/ args.max_bound_iterations > 1 /\ args.eval_every <= 0)
    /\ error = "ValueError" =>
          event = "update" /\ other = LdaState /\ inferred = NotInferred

\* update was called with max_bound_iterations > 1 and a negative
\* update_every on a non-empty corpus, and raised
C5_Witness ==
    /\ event = "update"
    /\ lencorpus > 0
    /\ args.max_bound_iterations > 1
    /\ args.update_every < 0
    /\ args.eval_every > 0
    /\ error = "ValueError"

\* C6: when update raises the configuration error, state.sstats,
\* state.numdocs, alpha, eta, expElogbeta and num_updates all have the values
\* they had before the call.
C6_ConfigErrorChangesNothing ==
    error = "ValueError" => Snapshot = entry

\* C7: update on an empty corpus returns without error and leaves
\* state.sstats, state.numdocs, alpha, eta, expElogbeta and num_updates
\* unchanged, whatever the options.
C7_EmptyCorpusNoOp ==
    pc # "idle" /\ lencorpus = 0 =>
        /\ pc = "returned"
        /\ error = "none"
        /\ event = "update"
        /\ Snapshot = entry

\* a trained model was given an empty corpus and contradictory options, and
\* update returned
C7_Witness ==
    /\ event = "update"
    /\ lencorpus = 0
    /\ ConfigError(args)
    /\ pc = "returned"
    /\ state.numdocs > 0
    /\ num_updates > 0

\* a traversal that yields a number of documents other than lencorpus ends
\* in the corpus-size-changed error, and nothing runs after it
C8_MismatchRaises ==
    /\ [](event = "end_traversal" /\ reallen # lencorpus =>
            pc = "raised" /\ error = "RuntimeError")
    /\ [](error = "RuntimeError" => event = "end_traversal")
    /\ [][pc # "raised"]_vars

C9_OverridesTakeEffect ==
    event = "estep" =>
        /\ inferred.iters <= args.iterations
        /\ inferred.iters =
               inference(chunk, args.iterations, args.gamma_threshold, resp,
                         inferred.mc).iters

RECURSIVE SumStates(_)
\* the entrywise sum of the E-step results of the nodes in S
SumStates(S) ==
    IF S = {} THEN LdaState
    ELSE LET i == CHOOSE x \in S : TRUE
             rest == SumStates(S \ {i})
         IN  [sstats |-> MatAdd(nodes[i].estep.sstats, rest.sstats),
              numdocs |-> nodes[i].estep.numdocs + rest.numdocs]

\* C10: merge is exact, commutative and associative: in whatever order and
\* grouping states are merged, a state holds the entrywise sum of the sstats
\* and the sum of the numdocs of the states merged into it, and the state
\* merged in is left as it was.
C10_MergeExact ==
    \A i \in DOMAIN nodes : nodes[i].state = SumStates(absorbed[i])

\* all the nodes' states have been merged into one
C10_Witness ==
    /\ nodes # <<>>
    /\ \E i \in DOMAIN nodes : absorbed[i] = DOMAIN nodes

\* target / numdocs, a document count of 0 read as scale 1
C11_Scale(target, numdocs) ==
    IF numdocs = 0 THEN R(1) ELSE Q(target, numdocs)

\* C11: blend(rho, other, target) sets self.sstats to
\* (1-rho)*(target/self.numdocs)*self.sstats
\*   + rho*(target/other.numdocs)*other.sstats, target defaulting to
\* self.numdocs and a document count of 0 giving scale 1, sets self.numdocs
\* to target and leaves other unchanged; so rho = 0 leaves the rescaled
\* original and rho = 1 the rescaled other.
C11_BlendFormula ==
    call.op = "blend" /\ call.returned =>
        LET a == call.self
            b == call.other
            target == IF call.targetsize = None THEN a.numdocs
                      ELSE call.targetsize[1]
            sa == C11_Scale(target, a.numdocs)
            sb == C11_Scale(target, b.numdocs)
            one_minus_rho == <<call.rhot[2] - call.rhot[1], call.rhot[2]>>
        IN  /\ \A k \in Topics, w \in Terms :
                  call.self_after.sstats[k][w] =
                      RAdd(RMul(RMul(one_minus_rho, sa), a.sstats[k][w]),
                           RMul(RMul(call.rhot, sb), b.sstats[k][w]))
            /\ call.self_after.numdocs = target
            /\ call.other_after = b
            /\ call.rhot = R(0) =>
                  call.self_after.sstats = MatScale(sa, a.sstats)
            /\ call.rhot = R(1) =>
                  call.self_after.sstats = MatScale(sb, b.sstats)

\* the empty state blended at rho = 0.5 and target 10 with 10 * ones of 5
\* documents holds 10 * ones and 10 documents
C11_Witness ==
    /\ call.op = "blend" /\ call.returned
    /\ call.self = [sstats |-> Zeros, numdocs |-> 0]
    /\ call.rhot = Q(1, 2)
    /\ call.targetsize = Some(10)
    /\ call.other = [sstats |-> Filled(10, FALSE), numdocs |-> 5]
    /\ call.self_after = [sstats |-> Filled(10, FALSE), numdocs |-> 10]

RECURSIVE C12_Merged(_)
\* the entrywise sum of the states the nodes in S hold
C12_Merged(S) ==
    IF S = {} THEN [sstats |-> Zeros, numdocs |-> 0]
    ELSE LET i == CHOOSE x \in S : TRUE
             rest == C12_Merged(S \ {i})
         IN  [sstats |-> MatAdd(nodes[i].state.sstats, rest.sstats),
              numdocs |-> nodes[i].state.numdocs + rest.numdocs]

\* C12: for a fixed model and any partition of a sequence of chunks across
\* workers, with the workers' results absorbed in any order, the merged
\* state has the sstats and numdocs of the single-node accumulator that
\* do_estep fills from the same chunks in sequence.
C12_DistributedEqualsSingleNode ==
    call.op = "estep" =>
        /\ C12_Merged({i \in DOMAIN nodes : nodes[i].live}) = other
        /\ \A i \in DOMAIN nodes :
              Cardinality({j \in DOMAIN nodes : nodes[j].live}) = 1
                  /\ nodes[i].live => nodes[i].state = other

\* three chunks went to more than one worker and all states are merged
C12_Witness ==
    /\ call.op = "estep"
    /\ Len(call.chunks) > 2
    /\ call.done = Len(call.chunks)
    /\ \E i \in DOMAIN nodes, j \in DOMAIN nodes :
          /\ \A n \in DOMAIN nodes : nodes[n].live <=> n = i
          /\ absorbed[i] = 1..Len(call.chunks)
          /\ j # i /\ absorbed[j] # {}
          /\ nodes[i].state = other
          /\ other.numdocs = MaxDocs + 1

\* C13: inference without collect_sstats, and the evaluation of the bound
\* (log_perplexity / bound) the training loop runs on a chunk, leave
\* state.sstats, state.numdocs, eta, alpha, expElogbeta and num_updates as
\* they were.
C13_BoundEvaluationReadOnly ==
    [][event' = "eval" => Snapshot' = Snapshot]_vars

\* the bound was evaluated on a chunk of a later pass, on a model the
\* M-steps of the first pass have changed
C13_Witness ==
    /\ event = "eval"
    /\ perwordbound_updated
    /\ pass_ > 0
    /\ num_updates > entry.num_updates
    /\ state.sstats # entry.sstats

\* prior + rho * d, entry by entry
C14_Proposed(c) ==
    [k \in Topics |-> RAdd(c.prior[k], RMul(c.rho, c.d[k]))]

\* what C14 has the optimizer leave: the proposed value if and only if
\* every entry of it is > 0, else the prior as it was
C14_Expected(c) ==
    IF \A k \in Topics : C14_Proposed(c)[k][1] > 0 THEN C14_Proposed(c)
    ELSE c.prior

\* C14: update_alpha sets alpha to alpha + rho*dalpha when every entry of
\* that sum is > 0 and otherwise leaves alpha unchanged, and likewise
\* update_eta for eta; so alpha and eta, positive at the start, stay
\* strictly positive in every entry after any sequence of optimizer calls.
C14_StepAppliedIffPositive ==
    /\ call.op = "update_alpha" => alpha = C14_Expected(call)
    /\ call.op = "update_eta" => eta = C14_Expected(call)
    /\ call.op \in {"constructed", "update_alpha", "update_eta"} =>
          \A k \in Topics : alpha[k][1] > 0 /\ eta[k][1] > 0

\* after an accepted step of alpha, update_eta proposed a value with an
\* entry of exactly zero and left eta as it was
C14_Witness ==
    /\ call.op = "update_eta"
    /\ \E k \in Topics : C14_Proposed(call)[k] = R(0)
    /\ eta = call.prior
    /\ alpha # [k \in Topics |-> Q(1, NumTopics)]

\* C15: constructing a model with algorithm='batch' either raises a
\* configuration error or yields a model with update_every = 0,
\* eval_every >= 1, unbounded chunksize, passes = 1 and
\* max_bound_iterations > 1.
C15_BatchPresetEnforced ==
    (/\ call.op = "construct"
     /\ call.returned
     /\ call.kwargs.algorithm = Some("batch")
     /\ error = "none")
    => /\ lda.update_every = 0
       /\ lda.eval_every >= 1
       /\ lda.chunksize >= sys_maxint
       /\ lda.passes = 1
       /\ lda.max_bound_iterations > 1

\* (last - current)/last, last being 1e99 before the first bound of a pass
C16_Improvement ==
    IF last_perwordbound = Inf99 THEN R(1)
    ELSE RDiv(RSub(last_perwordbound, perwordbound), last_perwordbound)

\* the bound-iteration just traversed evaluated a bound, and it converged
C16_Converged ==
    /\ perwordbound_updated
    /\ RLt(C16_Improvement, args.bound_improvement_threshold)

\* C16: at the end of a bound-iteration the loop stops if a bound was
\* freshly evaluated and (last - current)/last is below
\* bound_improvement_threshold, and otherwise goes on until
\* max_bound_iterations bound-iterations have run; the last bound is
\* replaced only by a freshly evaluated bound, and a bound-iteration
\* without a fresh bound never stops the loop short of the cap.
C16_BoundConvergenceTermination ==
    [][pc = "bound_test" =>
        /\ bound_iteration < args.max_bound_iterations
        /\ IF ~C16_Converged
              /\ bound_iteration + 1 < args.max_bound_iterations
           THEN /\ pc' = "bound_loop"
                /\ bound_iteration' = bound_iteration + 1
                /\ pass_' = pass_
           ELSE /\ pc' = "pass_loop"
                /\ pass_' = pass_ + 1
        /\ last_perwordbound' # last_perwordbound =>
              perwordbound_updated /\ last_perwordbound' = perwordbound
        /\ (~perwordbound_updated /\ pc' = "pass_loop") =>
              bound_iteration + 1 = args.max_bound_iterations
        /\ (perwordbound_updated /\ pc' = "bound_loop") =>
              last_perwordbound' = perwordbound]_vars

\* the loop stopped on a converged bound in its second bound-iteration,
\* with a third one still allowed
C16_Witness ==
    /\ event = "bound_test"
    /\ pc = "pass_loop"
    /\ bound_iteration = 1
    /\ args.max_bound_iterations = MaxBoundIterations + 1
    /\ perwordbound_updated
    /\ last_perwordbound # Inf99

\* the steps of each traversal: their kinds and the chunks they follow
Steps(tr) == [k \in 1..Len(tr) |-> <<tr[k].kind, tr[k].chunk_no>>]

\* the traversals of `history` that ran to their end
Completed ==
    IF pc \in {"bound_test", "bound_loop", "pass_loop", "returned"}
    THEN 1..Len(history)
    ELSE 1..(Len(history) - 1)

\* the chunks a traversal of the corpus yields
NumChunks == (lencorpus + args.chunksize - 1) \div args.chunksize

RECURSIVE C18_InLoop(_, _, _)
\* the E-steps of chunks i .. c-1, with update_every = n: each followed by
\* an M-step when (i+1) % (n*numworkers) = 0
C18_InLoop(i, c, n) ==
    IF i >= c THEN <<>>
    ELSE <<(<<"E", i>>)>>
         \o (IF n > 0 /\ (i + 1) % (n * lda.numworkers) = 0
             THEN <<(<<"M", i>>)>> ELSE <<>>)
         \o C18_InLoop(i + 1, c, n)

\* the final M-step after c chunks: when chunks were E-stepped since the
\* previous M-step
C18_Final(c, n) ==
    IF c > 0 /\ ~(n > 0 /\ c % (n * lda.numworkers) = 0)
    THEN <<(<<"M", c - 1>>)>> ELSE <<>>

C17_WholeCorpus ==
    [sstats |-> [k \in Topics |-> [w \in Terms |->
        RMul(R(Cardinality({d \in 1..lencorpus : DocAt(d)[1][1] = w})),
             resp[k])]],
     numdocs |-> lencorpus]

\* C17: with chunksize = lencorpus, update with update_every = 1 and
\* update with update_every = 0 make the same steps in every pass: one
\* E-step over the whole corpus, then exactly one M-step, which consumes
\* the accumulator of all lencorpus documents; what the M-step consumes
\* does not depend on the mode.
C17_OnlineEqualsBatch ==
    (/\ pc # "idle"
     /\ args.update_every \in {0, 1}
     /\ args.max_bound_iterations = 1
     /\ args.chunksize = lencorpus)
    => \A t \in Completed :
          /\ Len(history[t]) = 2
          /\ history[t][1].kind = "E"
          /\ history[t][1].docs = [d \in 1..lencorpus |-> d]
          /\ history[t][1].acc = C17_WholeCorpus
          /\ history[t][2].kind = "M"
          /\ history[t][2].chunks = <<0>>
          /\ history[t][2].acc = C17_WholeCorpus

\* a model trained by an online call with chunksize = lencorpus is trained
\* further by a batch call on the largest corpus, whose last pass made one
\* E-step and one M-step
C17_Witness ==
    /\ pc = "returned"
    /\ entry.num_updates > 0
    /\ lda.update_every = 1
    /\ args.update_every = 0
    /\ args.max_bound_iterations = 1
    /\ args.chunksize = lencorpus
    /\ lencorpus = MaxDocs
    /\ pass_ = MaxPasses
    /\ Len(history) = 1
    /\ Len(history[1]) = 2
    /\ history[1][2].acc.numdocs = MaxDocs

C19_IsM(e) == e.kind = "M"

C19_IsE(e) == e.kind = "E"

RECURSIVE C19_Consumed(_)
\* the chunks the M-steps ms consumed, in the order they consumed them
C19_Consumed(ms) ==
    IF ms = <<>> THEN <<>> ELSE Head(ms).chunks \o C19_Consumed(Tail(ms))

\* the documents of the chunks cs of traversal tr
C19_DocsOf(tr, cs) ==
    UNION {{tr[k].docs[i] : i \in 1..Len(tr[k].docs)} :
              k \in {j \in 1..Len(tr) :
                        /\ tr[j].kind = "E"
                        /\ \E i \in 1..Len(cs) : cs[i] = tr[j].chunk_no}}

\* the statistics of the documents D in one accumulator
C19_Accumulated(D) ==
    [sstats |-> [k \in Topics |-> [w \in Terms |->
        RMul(R(Cardinality({d \in D : DocAt(d)[1][1] = w})), resp[k])]],
     numdocs |-> Cardinality(D)]

C20_SameRhoTrajectory ==
    /\ \A t \in 2..Len(history) :
          /\ Len(history[t]) <= Len(history[1])
          /\ \A k \in 1..Len(history[t]) :
                /\ history[t][k].kind = history[1][k].kind
                /\ history[t][k].nu = history[1][k].nu
                /\ history[t][k].rate = history[1][k].rate
    /\ (Len(history) > 0 /\ history[Len(history)] = <<>>) =>
          num_updates = num_updates_at_pass_start

\* in the first pass, with alpha='auto', the second bound-iteration has
\* made its alpha update and its M-step after the first one's M-step had
\* raised num_updates
C20_Witness ==
    /\ pc = "bound_test"
    /\ pass_ = 0
    /\ lda.optimize_alpha
    /\ Len(history) = 2
    /\ Len(history[2]) = Len(history[1])
    /\ \E k \in 1..Len(history[2]) :
          history[2][k].kind = "E" /\ history[2][k].rate # None
    /\ \E k \in 1..Len(history[2]) : history[2][k].kind = "M"
    /\ num_updates > num_updates_at_pass_start

\* mean(|gamma_d - previous gamma_d|) at iteration j falls below the
\* threshold
C21_ConvergedAt(j) ==
    LET a == call.trail[j + 1]
        b == call.trail[j]
        total == [k \in Topics |->
                    IF RLt(a[k], b[k]) THEN RSub(b[k], a[k])
                    ELSE RSub(a[k], b[k])]
    IN  RLt(RDiv(SumOver(total, Topics), R(NumTopics)), lda.gamma_threshold)

\* the loop has made no more than `iterations` iterations, none before the
\* last of them converged, and it is left at the first that converges or
\* after exactly `iterations`; an empty document ends with gamma_d = alpha
C21_LoopBounded ==
    call.op = "inference" =>
        /\ call.i <= lda.iterations
        /\ Len(call.trail) = call.i + 1
        /\ \A j \in 1..(call.i - 1) : ~C21_ConvergedAt(j)
        /\ call.returned =>
              \/ call.i >= 1 /\ C21_ConvergedAt(call.i)
              \/ call.i = lda.iterations
        /\ (call.returned /\ call.doc = <<>> /\ lda.iterations >= 2) =>
              call.gamma = alpha

\* C21: the fixed-point loop on gamma ends at the first iteration at which
\* mean(|gamma_d - previous gamma_d|) < gamma_threshold or after exactly
\* `iterations` iterations, never more; it always terminates; and with an
\* empty document and iterations >= 2 it ends with gamma_d = alpha.
C21_FixedPointLoopEnds ==
    /\ []C21_LoopBounded
    /\ <>(call.op = "inference" /\ call.returned)

\* an empty document, gamma not starting at alpha: the loop ended on
\* convergence at its second iteration, before the cap, with gamma = alpha
C21_Witness ==
    /\ call.op = "inference"
    /\ call.returned
    /\ call.doc = <<>>
    /\ lda.iterations = MaxIterations
    /\ call.i = 2
    /\ call.trail[1] # alpha
    /\ call.gamma = alpha

\* C22: for offset >= 0 and decay in (0.5, 1], the step size rho used by
\* every M-step and alpha update is defined and lies in (0, 1]: computing
\* it never raises, and every rho computed is > 0 and <= 1.
C22_RhoInUnitInterval ==
    (/\ pc # "idle"
     /\ ~RLt(args.offset, R(0))
     /\ RLt(Q(1, 2), args.decay) /\ ~RLt(R(1), args.decay))
    => /\ error # "ZeroDivisionError"
       /\ \A t \in 1..Len(history) : \A k \in 1..Len(history[t]) :
             history[t][k].rate # None =>
                 /\ RLt(R(0), history[t][k].rate[1])
                 /\ ~RLt(R(1), history[t][k].rate[1])

\* C23: when update returns normally from a non-empty corpus of lencorpus
\* documents, with passes >= 1 and whatever update_every and however many
\* bound-iterations, num_updates and state.numdocs have each grown by
\* exactly lencorpus since the call.
C23_CountersGrowByLencorpus ==
    (pc = "returned" /\ lencorpus > 0 /\ args.passes >= 1) =>
        /\ num_updates = entry.num_updates + lencorpus
        /\ state.numdocs = entry.numdocs + lencorpus

\* a trained model has been trained further, on the largest corpus, with
\* the most passes and with several bound-iterations
C23_Witness ==
    /\ pc = "returned"
    /\ entry.num_updates > 0
    /\ entry.numdocs > 0
    /\ lencorpus = MaxDocs
    /\ args.passes = MaxPasses
    /\ args.max_bound_iterations = MaxBoundIterations
    /\ bound_iteration = MaxBoundIterations - 1
    /\ num_updates = entry.num_updates + MaxDocs

\* C24: in distributed mode every putjob is preceded, in its own
\* bound-iteration, by a reset with no M-step between the two, so the
\* worker that takes the job holds the model as it now is; and every M-step
\* comes straight after a getstate, which comes after the last putjob.
C24_WorkersNeverStale ==
    /\ \A t \in 1..Len(history) :
          LET tr == history[t]
          IN  \A k \in 1..Len(tr) :
                /\ tr[k].kind = "putjob" =>
                      /\ \E j \in 1..(k - 1) :
                            /\ tr[j].kind = "reset"
                            /\ tr[j].model = tr[k].current
                            /\ \A m \in (j + 1)..(k - 1) : tr[m].kind # "M"
                      /\ tr[k].model = Some(tr[k].current)
                /\ tr[k].kind = "M" =>
                      /\ k > 1
                      /\ tr[k - 1].kind = "getstate"
                      /\ tr[k - 1].acc = tr[k].acc
                      /\ \E j \in 1..(k - 2) : tr[j].kind = "putjob"
    /\ pc = "estep" => \A i \in DOMAIN nodes : nodes[i].model = Some(state)

\* an M-step in the loop has changed the model, the workers were reset,
\* and a worker has taken the next job
C24_Witness ==
    /\ Len(nodes) > 0
    /\ event = "putjob"
    /\ \E k \in 2..Len(history[Len(history)]) :
          /\ history[Len(history)][k - 1].kind = "M"
          /\ history[Len(history)][k].kind = "reset"
          /\ history[Len(history)][k].model # history[Len(history)][1].model
    /\ history[Len(history)][Len(history[Len(history)])].kind = "putjob"


\* C25: with eval_every > 0 the bound is evaluated on the chunk that
\* completes the corpus and on every chunk whose index + 1 is a multiple of
\* eval_every * numworkers, each time before the E-step of that chunk and
\* before any M-step it leads to, so that every completed traversal reaches
\* the relative-improvement test with a bound computed in that traversal.
C25_Scheduled ==
    \/ reallen = lencorpus
    \/ (chunk_no + 1) % (args.eval_every * lda.numworkers) = 0

=============================================================================
